---- MODULE Spec2Model ----
(***************************************************************************)
(* OpenAI API proxy worker (src/src/index.js): the fetch handler, the      *)
(* forwarder handleRequest, the idempotency cache (checkIdempotency,       *)
(* storeIdempotentResponse) over the IDEMPOTENCY KV namespace, and the     *)
(* CORS adapter (handleCORS, addCORSHeaders).                              *)
(*                                                                         *)
(* Every inbound request runs in its own slot. The awaits of the code are  *)
(* the interleaving points: the KV get of checkIdempotency, the upstream   *)
(* fetch of handleRequest, and the background task handed to               *)
(* ctx.waitUntil. The variable out holds what the step just taken made     *)
(* observable (the response sent to the caller, a KV put, ...).            *)
(*                                                                         *)
(* Environment assumptions: the KV namespace is a map with per-key expiry  *)
(* that is read-your-writes consistent; a response body is a string, the   *)
(* empty string standing for a null body; header names are lower case as   *)
(* the Headers class reports them.                                         *)
(***************************************************************************)
EXTENDS Integers, Sequences, FiniteSets, TLC

VARIABLES env, clock, kv, reqs, out, first, written, call

vars == <<env, clock, kv, reqs, out, first, written, call>>

(***************************************************************************)
(* Bounds of the model.                                                    *)
(***************************************************************************)
MaxRequests == 2
MaxTicks == 2

(***************************************************************************)
(* Program constants.                                                      *)
(***************************************************************************)
\* a week instead of a day
IDEMPOTENCY_EXPIRATION_Week == 7 * 24 * 60 * 60

IDEMPOTENCY_EXPIRATION == 24 * 60 * 60

nonIdempotentMethods == {"POST", "PUT", "PATCH", "DELETE"}

\* env.OPENAI_API_KEY and request.headers.get(...) are undefined / null when absent
Undefined == "<undefined>"

\* JavaScript's !v for the string-or-absent values the worker tests
Falsy(v) == v \in {Undefined, ""}

(***************************************************************************)
(* Headers: a header list maps a lower-case name to the sequence of its    *)
(* values; a plain JavaScript object maps a name to one string.            *)
(***************************************************************************)
NoHeaders == [n \in {} |-> <<>>]

\* Headers normalises names to lower case
LowerName(n) ==
    CASE n = "Access-Control-Allow-Origin" -> "access-control-allow-origin"
      [] n = "Access-Control-Allow-Methods" -> "access-control-allow-methods"
      [] n = "Access-Control-Allow-Headers" -> "access-control-allow-headers"
      [] n = "Access-Control-Max-Age" -> "access-control-max-age"
      [] n = "Content-Type" -> "content-type"
      [] n = "Authorization" -> "authorization"
      [] n = "Idempotency-Key" -> "idempotency-key"
      [] OTHER -> n

\* the combined value Headers.get and Headers.entries report for a name
RECURSIVE JoinValues(_)
JoinValues(vs) ==
    IF Len(vs) = 1 THEN vs[1] ELSE vs[1] \o ", " \o JoinValues(Tail(vs))

\* new Headers(object): every own property becomes one header
HeadersFromObject(obj) ==
    [n \in {LowerName(k) : k \in DOMAIN obj} |->
        <<obj[CHOOSE k \in DOMAIN obj : LowerName(k) = n]>>]

\* Headers.set(name, value): replaces every value of the name
HeadersSet(h, name, value) ==
    [n \in DOMAIN h \cup {LowerName(name)} |->
        IF n = LowerName(name) THEN <<value>> ELSE h[n]]

\* for (const [key, value] of headers.entries()) obj[key] = value:
\* entries() yields one combined entry per name, except set-cookie, which it
\* yields once per value, so the assignment keeps the last cookie only
HeadersToObject(h) ==
    [n \in DOMAIN h |->
        IF n = "set-cookie" THEN h[n][Len(h[n])] ELSE JoinValues(h[n])]

\* { ...a, ...b }
ObjectSpread(a, b) ==
    [k \in DOMAIN a \cup DOMAIN b |-> IF k \in DOMAIN b THEN b[k] ELSE a[k]]

(***************************************************************************)
(* Responses.                                                              *)
(***************************************************************************)
Response(body, status, statusText, headers) ==
    [status |-> status, statusText |-> statusText, headers |-> headers, body |-> body]

NoResponse == Response("", 0, "", NoHeaders)

\* JSON.stringify({ error: message })
JSONError(message) == "{\"error\":\"" \o message \o "\"}"

\* a body that is not valid UTF-8 (audio, images), and what decoding it as
\* UTF-8 gives: each invalid byte becomes U+FFFD
BinaryBody == "<bytes ff fb 90>"
TextDecode(body) == IF body = BinaryBody THEN "<U+FFFD U+FFFD U+FFFD>" ELSE body

\* what upstream may answer: a 2xx, a 4xx that carries a CORS header of its own,
\* and a 5xx with two cookies and a body that is not text
Upstream200 ==
    Response("{\"id\":\"cmpl-1\"}", 200, "OK",
             ("content-type" :> <<"application/json">>) @@ ("x-request-id" :> <<"req_1">>))
Upstream429 ==
    Response("{\"error\":{\"code\":\"rate_limit_exceeded\"}}", 429, "Too Many Requests",
             ("content-type" :> <<"application/json">>)
                @@ ("access-control-allow-origin" :> <<"https://platform.openai.com">>))
Upstream503 ==
    Response(BinaryBody, 503, "Service Unavailable",
             ("content-type" :> <<"application/octet-stream">>)
                @@ ("set-cookie" :> <<"a=1", "b=2">>))
UpstreamResponses == {Upstream200, Upstream429, Upstream503}

\* err.message of a fetch that failed at transport level
TransportErrors == {"Network connection lost.", "internal error"}

(***************************************************************************)
(* CORS adapter.                                                           *)
(***************************************************************************)
\* corsHeaders of fetch
corsHeaders ==
    ("Access-Control-Allow-Origin" :> "*")
        @@ ("Access-Control-Allow-Methods" :> "GET, POST, PUT, DELETE, OPTIONS, PATCH")
        @@ ("Access-Control-Allow-Headers" :> "Content-Type, Authorization, Idempotency-Key")
        @@ ("Access-Control-Max-Age" :> "86400")

\* defaultHeaders of addCORSHeaders
defaultHeaders ==
    ("Access-Control-Allow-Origin" :> "*")
        @@ ("Access-Control-Allow-Methods" :> "GET, POST, PUT, DELETE, OPTIONS, PATCH")
        @@ ("Access-Control-Allow-Headers" :> "Content-Type, Authorization, Idempotency-Key")

handleCORS == Response("", 204, "", HeadersFromObject(corsHeaders))

\* for (const [key, value] of Object.entries(headers)) newHeaders.set(key, value)
RECURSIVE SetAll(_, _, _)
SetAll(h, obj, keys) ==
    IF keys = {} THEN h
    ELSE LET k == CHOOSE x \in keys : TRUE
         IN SetAll(HeadersSet(h, k, obj[k]), obj, keys \ {k})

\* the CORS headers put in place of the response's headers instead of merged
addCORSHeaders_Replace(response, cors) ==
    LET headers == ObjectSpread(defaultHeaders, cors)
    IN Response(response.body, response.status, response.statusText,
                SetAll(NoHeaders, headers, DOMAIN headers))

addCORSHeaders(response, cors) ==
    LET headers == ObjectSpread(defaultHeaders, cors)
    IN Response(response.body, response.status, response.statusText,
                SetAll(response.headers, headers, DOMAIN headers))

(***************************************************************************)
(* Forwarder: what handleRequest returns once the upstream fetch settles.  *)
(***************************************************************************)
\* new Response(response.body, response)
ForwardSuccess(upstream) ==
    Response(upstream.body, upstream.status, upstream.statusText, upstream.headers)

\* the catch block answering 502 with the bare message
ForwardFailure_BadGateway(message) ==
    Response(message, 502, "", HeadersFromObject(("Content-Type" :> "text/plain")))

\* the catch block
ForwardFailure(message) ==
    Response(JSONError(message), 500, "",
             HeadersFromObject(("Content-Type" :> "application/json")))

\* the response of fetch when env.OPENAI_API_KEY is not set
MissingKeyResponse ==
    Response(JSONError("OPENAI_API_KEY environment variable is not set"), 500, "",
             HeadersFromObject(("Content-Type" :> "application/json")))

(***************************************************************************)
(* Idempotency cache.                                                      *)
(***************************************************************************)
\* `${request.method}:${request.url}:${idempotencyKey}`
CacheKey(method, url, idempotencyKey) == method \o ":" \o url \o ":" \o idempotencyKey

\* the gate without its method test, and without its key test
UsesIdempotency_AnyMethod(method, idempotencyKey) == ~Falsy(idempotencyKey)
UsesIdempotency_AnyKey(method, idempotencyKey) == method \in nonIdempotentMethods

\* the gate both checkIdempotency and storeIdempotentResponse start with
UsesIdempotency(method, idempotencyKey) ==
    method \in nonIdempotentMethods /\ ~Falsy(idempotencyKey)

\* responseData of storeIdempotentResponse, as JSON.stringify writes it and
\* get(..., { type: 'json' }) reads it back: strings and a number, which the
\* JSON round trip keeps
ResponseData(response) ==
    [body |-> TextDecode(response.body),
     status |-> response.status,
     statusText |-> response.statusText,
     headers |-> HeadersToObject(response.headers)]

\* new Response(cachedResponse.body, { status, statusText, headers: new Headers(...) })
CachedResponse(data) ==
    Response(data.body, data.status, data.statusText, HeadersFromObject(data.headers))

\* KV namespace: key -> [value, expiration]
KVHas(store, key) == key \in DOMAIN store

KVPut(store, key, value, expirationTtl, now) ==
    [k \in DOMAIN store \cup {key} |->
        IF k = key THEN [value |-> value, expiration |-> now + expirationTtl]
        ELSE store[k]]

\* the namespace drops a key once its expiration time is reached
KVExpire(store, now) ==
    [k \in {x \in DOMAIN store : store[x].expiration > now} |-> store[k]]

(***************************************************************************)
(* Inbound requests.                                                       *)
(***************************************************************************)
Methods == {"GET", "HEAD", "OPTIONS", "POST", "PUT", "PATCH", "DELETE"}
\* request.url; the cache keys of the model differ by method and idempotency key
Urls == {"https://proxy.dev/v1/chat/completions?stream=false"}
\* the Idempotency-Key header: absent, empty, or a key
IdempotencyKeys == {Undefined, "", "key-1"}
\* GET, HEAD and OPTIONS requests carry no body
Bodies(method) ==
    IF method \in {"GET", "HEAD", "OPTIONS"} THEN {""} ELSE {"{\"n\":1}", "{\"n\":2}"}

Requests ==
    UNION {[method : {m}, url : Urls, idempotencyKey : IdempotencyKeys, body : Bodies(m)]
            : m \in Methods}

NoRequest == [method |-> "", url |-> "", idempotencyKey |-> Undefined, body |-> ""]

RequestKey(request) == CacheKey(request.method, request.url, request.idempotencyKey)

(***************************************************************************)
(* State.                                                                  *)
(*   env    the bindings: OPENAI_API_KEY (the IDEMPOTENCY namespace is kv) *)
(*   clock  seconds since the model starts                                 *)
(*   kv     the IDEMPOTENCY namespace                                      *)
(*   reqs   per slot, the invocation of fetch running there                *)
(*   out    what the last step made observable                             *)
(*   first  per cache key, the outcome of the upstream call of the first   *)
(*          request that arrived with it (history)                         *)
(*   written per cache key, the expiration of the record last written      *)
(*          under it (history)                                             *)
(*   call   one function of the worker taken alone, with its arguments and *)
(*          its result; unused while requests are served                   *)
(***************************************************************************)
Slots == 1..MaxRequests

\* pc: "idle" not arrived; "kvget" awaiting env.IDEMPOTENCY.get; "upstream"
\* awaiting fetch(finalRequest); "store" the response is returned and the task
\* given to ctx.waitUntil is pending; "done"
IdleSlot ==
    [pc |-> "idle", request |-> NoRequest, isFirst |-> FALSE, gets |-> 0, calls |-> 0,
     forwarded |-> NoResponse, sent |-> NoResponse]
DoneSlot == [IdleSlot EXCEPT !.pc = "done"]

NoData == ResponseData(NoResponse)

NoEvent ==
    [kind |-> "none", slot |-> 0, request |-> NoRequest, path |-> "",
     response |-> NoResponse, forwarded |-> NoResponse, upstream |-> NoResponse,
     transport |-> "", gets |-> 0, calls |-> 0, store |-> FALSE,
     error |-> "", key |-> "", value |-> NoData, expirationTtl |-> 0,
     expiration |-> 0, overwrote |-> FALSE]

\* a record an earlier deployment of the worker left in the namespace
SeedRequest ==
    [method |-> "POST", url |-> "https://proxy.dev/v1/chat/completions?stream=false",
     idempotencyKey |-> "key-1", body |-> "{\"n\":1}"]
SeededStore ==
    RequestKey(SeedRequest) :>
        [value |-> ResponseData(ForwardSuccess(Upstream200)),
         expiration |-> IDEMPOTENCY_EXPIRATION]
SeededFirst == RequestKey(SeedRequest) :> [state |-> "ok", response |-> Upstream200]

ApiKeys == {Undefined, "", "sk-secret"}

EmptyMap == [k \in {} |-> NoEvent]

NoCall == [fn |-> "none"]

Init ==
    /\ env \in [OPENAI_API_KEY : ApiKeys]
    /\ clock = 0
    /\ \/ kv = EmptyMap /\ first = EmptyMap /\ written = EmptyMap
       \/ /\ kv = SeededStore
          /\ first = SeededFirst
          /\ written = RequestKey(SeedRequest) :> IDEMPOTENCY_EXPIRATION
    /\ reqs = [i \in Slots |-> IdleSlot]
    /\ out = NoEvent
    /\ call = NoCall

(***************************************************************************)
(* fetch, from its entry to its first await.                               *)
(***************************************************************************)
\* fetch with the preflight branch ahead of the credential check, and with no
\* preflight branch
Dispatch_PreflightFirst(e, request) ==
    IF request.method = "OPTIONS" THEN "preflight"
    ELSE IF Falsy(e.OPENAI_API_KEY) THEN "nokey"
    ELSE IF UsesIdempotency(request.method, request.idempotencyKey) THEN "lookup"
    ELSE "forward"
Dispatch_NoPreflight(e, request) ==
    IF Falsy(e.OPENAI_API_KEY) THEN "nokey"
    ELSE IF UsesIdempotency(request.method, request.idempotencyKey) THEN "lookup"
    ELSE "forward"

\* the branch fetch takes: the credential check, the preflight branch, then
\* checkIdempotency, which reaches the KV get only through its two gates
Dispatch(e, request) ==
    IF Falsy(e.OPENAI_API_KEY) THEN "nokey"
    ELSE IF request.method = "OPTIONS" THEN "preflight"
    ELSE IF UsesIdempotency(request.method, request.idempotencyKey) THEN "lookup"
    ELSE "forward"

ResponseEvent(i, request, path, response) ==
    [NoEvent EXCEPT !.kind = "response", !.slot = i, !.request = request,
                    !.path = path, !.response = response]

\* the history of the first request of a cache key
NoteArrival(request) ==
    IF RequestKey(request) \in DOMAIN first THEN first
    ELSE first @@ (RequestKey(request) :> [state |-> "pending", response |-> NoResponse])

NoteOutcome(i, state, response) ==
    IF reqs[i].isFirst
    THEN [first EXCEPT ![RequestKey(reqs[i].request)] =
                            [state |-> state, response |-> response]]
    ELSE first

Arrive(i, request) ==
    /\ reqs[i].pc = "idle"
    /\ IF i = 1 THEN TRUE ELSE reqs[i - 1].pc # "idle"
    /\ LET branch == Dispatch(env, request)
       IN CASE branch = "nokey" ->
                 /\ reqs' = [reqs EXCEPT ![i] = DoneSlot]
                 /\ out' = ResponseEvent(i, request, "nokey", MissingKeyResponse)
                 /\ first' = first
            [] branch = "preflight" ->
                 /\ reqs' = [reqs EXCEPT ![i] = DoneSlot]
                 /\ out' = ResponseEvent(i, request, "preflight", handleCORS)
                 /\ first' = first
            [] branch = "lookup" ->
                 \* env.IDEMPOTENCY.get is issued
                 /\ reqs' = [reqs EXCEPT ![i] =
                        [IdleSlot EXCEPT !.pc = "kvget", !.request = request, !.gets = @ + 1,
                                         !.isFirst = RequestKey(request) \notin DOMAIN first]]
                 /\ out' = NoEvent
                 /\ first' = NoteArrival(request)
            [] OTHER ->
                 \* handleRequest issues fetch(finalRequest)
                 /\ reqs' = [reqs EXCEPT ![i] =
                        [IdleSlot EXCEPT !.pc = "upstream", !.request = request, !.calls = @ + 1]]
                 /\ out' = NoEvent
                 /\ first' = first
    /\ UNCHANGED <<env, clock, kv, written, call>>

(***************************************************************************)
(* checkIdempotency, after the KV get.                                     *)
(***************************************************************************)
\* fetch without the early return on a replay: the replayed response is handed
\* to the store task like a live one
KvGetReturn_StoresReplay(i) ==
    /\ reqs[i].pc = "kvget"
    /\ LET request == reqs[i].request
           key == RequestKey(request)
       IN IF KVHas(kv, key)
          THEN /\ reqs' = [reqs EXCEPT ![i].pc = "store",
                                       ![i].forwarded = CachedResponse(kv[key].value),
                                       ![i].sent = addCORSHeaders(
                                           CachedResponse(kv[key].value), corsHeaders)]
               /\ out' = [ResponseEvent(i, request, "hit",
                              addCORSHeaders(CachedResponse(kv[key].value), corsHeaders))
                            EXCEPT !.gets = reqs[i].gets, !.calls = reqs[i].calls,
                                   !.key = key, !.value = kv[key].value,
                                   !.expiration = kv[key].expiration, !.store = TRUE]
               /\ first' = NoteOutcome(i, "replayed", NoResponse)
          ELSE /\ reqs' = [reqs EXCEPT ![i].pc = "upstream", ![i].calls = @ + 1]
               /\ out' = [NoEvent EXCEPT !.kind = "miss", !.slot = i, !.request = request,
                                         !.key = key, !.gets = reqs[i].gets]
               /\ first' = first
    /\ UNCHANGED <<env, clock, kv, written, call>>

\* checkIdempotency holding a request back while another request of the same
\* cache key is in flight
KvGetReturn_WaitsForInFlight(i) ==
    /\ reqs[i].pc = "kvget"
    /\ \A j \in Slots \ {i} :
          ~(/\ reqs[j].pc \in {"upstream", "store"}
            /\ RequestKey(reqs[j].request) = RequestKey(reqs[i].request))
    /\ LET request == reqs[i].request
           key == RequestKey(request)
       IN IF KVHas(kv, key)
          THEN /\ reqs' = [reqs EXCEPT ![i] = DoneSlot]
               /\ out' = [ResponseEvent(i, request, "hit",
                              addCORSHeaders(CachedResponse(kv[key].value), corsHeaders))
                            EXCEPT !.gets = reqs[i].gets, !.calls = reqs[i].calls,
                                   !.key = key, !.value = kv[key].value,
                                   !.expiration = kv[key].expiration]
               /\ first' = NoteOutcome(i, "replayed", NoResponse)
          ELSE /\ reqs' = [reqs EXCEPT ![i].pc = "upstream", ![i].calls = @ + 1]
               /\ out' = [NoEvent EXCEPT !.kind = "miss", !.slot = i, !.request = request,
                                         !.key = key, !.gets = reqs[i].gets]
               /\ first' = first
    /\ UNCHANGED <<env, clock, kv, written, call>>

\* the get resolves: a record is replayed, no record falls through to
\* handleRequest
KvGetReturn(i) ==
    /\ reqs[i].pc = "kvget"
    /\ LET request == reqs[i].request
           key == RequestKey(request)
       IN IF KVHas(kv, key)
          THEN /\ reqs' = [reqs EXCEPT ![i] = DoneSlot]
               /\ out' = [ResponseEvent(i, request, "hit",
                              addCORSHeaders(CachedResponse(kv[key].value), corsHeaders))
                            EXCEPT !.gets = reqs[i].gets, !.calls = reqs[i].calls,
                                   !.key = key, !.value = kv[key].value,
                                   !.expiration = kv[key].expiration]
               /\ first' = NoteOutcome(i, "replayed", NoResponse)
          ELSE /\ reqs' = [reqs EXCEPT ![i].pc = "upstream", ![i].calls = @ + 1]
               /\ out' = [NoEvent EXCEPT !.kind = "miss", !.slot = i, !.request = request,
                                         !.key = key, !.gets = reqs[i].gets]
               /\ first' = first
    /\ UNCHANGED <<env, clock, kv, written, call>>

\* the get rejects: nothing catches it, so fetch rejects
KvGetFail(i) ==
    /\ reqs[i].pc = "kvget"
    /\ reqs' = [reqs EXCEPT ![i] = DoneSlot]
    /\ out' = [NoEvent EXCEPT !.kind = "exception", !.slot = i,
                              !.request = reqs[i].request, !.path = "getfailed",
                              !.gets = reqs[i].gets, !.calls = reqs[i].calls]
    /\ first' = NoteOutcome(i, "none", NoResponse)
    /\ UNCHANGED <<env, clock, kv, written, call>>

(***************************************************************************)
(* handleRequest returns; fetch hands storeIdempotentResponse to           *)
(* ctx.waitUntil and returns the response with the CORS headers.           *)
(***************************************************************************)
Forwarded(i, forwarded, transport, upstream, error) ==
    LET request == reqs[i].request
        store == UsesIdempotency(request.method, request.idempotencyKey)
        sent == addCORSHeaders(forwarded, corsHeaders)
    IN /\ reqs' = [reqs EXCEPT ![i] =
                     IF store
                     THEN [reqs[i] EXCEPT !.pc = "store", !.forwarded = forwarded,
                                          !.sent = sent]
                     ELSE DoneSlot]
       /\ out' = [ResponseEvent(i, request, "live", sent)
                    EXCEPT !.forwarded = forwarded, !.upstream = upstream,
                           !.transport = transport, !.error = error,
                           !.gets = reqs[i].gets,
                           !.calls = reqs[i].calls, !.store = store]
       /\ first' = NoteOutcome(i, transport, upstream)
       /\ UNCHANGED <<env, clock, kv, written, call>>

UpstreamReturn(i, upstream) ==
    /\ reqs[i].pc = "upstream"
    /\ Forwarded(i, ForwardSuccess(upstream), "ok", upstream, "")

\* handleRequest calling the upstream a second time when the first call threw
UpstreamFail_RetriesOnce(i, message) ==
    /\ reqs[i].pc = "upstream"
    /\ IF reqs[i].calls < 2
       THEN /\ reqs' = [reqs EXCEPT ![i].calls = @ + 1]
            /\ out' = [NoEvent EXCEPT !.kind = "retry", !.slot = i,
                                      !.request = reqs[i].request,
                                      !.gets = reqs[i].gets, !.calls = reqs'[i].calls]
            /\ UNCHANGED <<env, clock, kv, first, written, call>>
       ELSE Forwarded(i, ForwardFailure(message), "failed", NoResponse, message)

UpstreamFail(i, message) ==
    /\ reqs[i].pc = "upstream"
    /\ Forwarded(i, ForwardFailure(message), "failed", NoResponse, message)

(***************************************************************************)
(* storeIdempotentResponse, the background task.                           *)
(***************************************************************************)
StoreEvent(i, kind) ==
    [NoEvent EXCEPT !.kind = kind, !.slot = i, !.request = reqs[i].request,
                    !.response = reqs[i].sent, !.forwarded = reqs[i].forwarded,
                    !.gets = reqs[i].gets, !.calls = reqs[i].calls,
                    !.key = RequestKey(reqs[i].request)]

\* storeIdempotentResponse building its key without the URL, so that it differs
\* from the key checkIdempotency reads
StorePut_KeyWithoutUrl(i) ==
    /\ reqs[i].pc = "store"
    /\ LET key == reqs[i].request.method \o ":" \o reqs[i].request.idempotencyKey
           value == ResponseData(reqs[i].forwarded)
       IN /\ kv' = KVPut(kv, key, value, IDEMPOTENCY_EXPIRATION, clock)
          /\ out' = [StoreEvent(i, "put")
                       EXCEPT !.value = value, !.expirationTtl = IDEMPOTENCY_EXPIRATION,
                              !.expiration = kv'[key].expiration,
                              !.overwrote = KVHas(kv, key)]
          /\ written' = [k \in DOMAIN written \cup {key} |->
                            IF k = key THEN kv'[key].expiration ELSE written[k]]
    /\ reqs' = [reqs EXCEPT ![i] = DoneSlot]
    /\ UNCHANGED <<env, clock, first, call>>

StorePut(i) ==
    /\ reqs[i].pc = "store"
    /\ LET key == RequestKey(reqs[i].request)
           value == ResponseData(reqs[i].forwarded)
       IN /\ kv' = KVPut(kv, key, value, IDEMPOTENCY_EXPIRATION, clock)
          /\ out' = [StoreEvent(i, "put")
                       EXCEPT !.value = value, !.expirationTtl = IDEMPOTENCY_EXPIRATION,
                              !.expiration = kv'[key].expiration,
                              !.overwrote = KVHas(kv, key)]
          /\ written' = [k \in DOMAIN written \cup {key} |->
                            IF k = key THEN kv'[key].expiration ELSE written[k]]
    /\ reqs' = [reqs EXCEPT ![i] = DoneSlot]
    /\ UNCHANGED <<env, clock, first, call>>

\* fetch awaiting the task and answering its failure with an error response
StoreFail_Surfaces(i) ==
    /\ reqs[i].pc = "store"
    /\ out' = [ResponseEvent(i, reqs[i].request, "live",
                    addCORSHeaders(ForwardFailure("KV put failed"), corsHeaders))
                 EXCEPT !.forwarded = reqs[i].forwarded, !.gets = reqs[i].gets,
                        !.calls = reqs[i].calls, !.store = TRUE]
    /\ reqs' = [reqs EXCEPT ![i] = DoneSlot]
    /\ UNCHANGED <<env, clock, kv, first, written, call>>

\* reading the body or the put rejects: the task's promise rejects, unobserved
StoreFail(i) ==
    /\ reqs[i].pc = "store"
    /\ out' = StoreEvent(i, "putfailed")
    /\ reqs' = [reqs EXCEPT ![i] = DoneSlot]
    /\ UNCHANGED <<env, clock, kv, first, written, call>>

(***************************************************************************)
(* Time.                                                                   *)
(***************************************************************************)
TickStep == IDEMPOTENCY_EXPIRATION \div 2

Tick ==
    /\ clock < MaxTicks * TickStep
    /\ clock' = clock + TickStep
    /\ kv' = KVExpire(kv, clock')
    /\ out' = NoEvent
    /\ UNCHANGED <<env, reqs, first, written, call>>

Next ==
    \/ \E i \in Slots, request \in Requests : Arrive(i, request)
    \/ \E i \in Slots : KvGetReturn(i)
    \/ \E i \in Slots : KvGetFail(i)
    \/ \E i \in Slots, upstream \in UpstreamResponses : UpstreamReturn(i, upstream)
    \/ \E i \in Slots, message \in TransportErrors : UpstreamFail(i, message)
    \/ \E i \in Slots : StorePut(i)
    \/ \E i \in Slots : StoreFail(i)
    \/ Tick

Spec == Init /\ [][Next]_vars

\* ctx.waitUntil keeps the worker alive until the store task has settled: the
\* put of a pending task resolves or rejects
StoreSettles == \A i \in Slots : WF_vars(StorePut(i) \/ StoreFail(i))

\* the requests of the fair specification: a method that never uses the cache
\* and two that do
LiveRequests == {request \in Requests : request.method \in {"GET", "POST", "DELETE"}}

LiveNext ==
    \/ \E i \in Slots, request \in LiveRequests : Arrive(i, request)
    \/ \E i \in Slots : KvGetReturn(i)
    \/ \E i \in Slots : KvGetFail(i)
    \/ \E i \in Slots, upstream \in UpstreamResponses : UpstreamReturn(i, upstream)
    \/ \E i \in Slots, message \in TransportErrors : UpstreamFail(i, message)
    \/ \E i \in Slots : StorePut(i)
    \/ \E i \in Slots : StoreFail(i)
    \/ Tick

LiveSpec == Init /\ [][LiveNext]_vars /\ StoreSettles

(***************************************************************************)
(* Vocabulary of the properties.                                           *)
(***************************************************************************)
CorsNames ==
    {"access-control-allow-origin", "access-control-allow-methods",
     "access-control-allow-headers", "access-control-max-age"}

KeyConfigured == ~Falsy(env.OPENAI_API_KEY)

\* a and b agree on status, body and every header that is not a CORS header
SameApartFromCors(a, b) ==
    /\ a.status = b.status
    /\ a.body = b.body
    /\ DOMAIN a.headers \ CorsNames = DOMAIN b.headers \ CorsNames
    /\ \A n \in DOMAIN a.headers \ CorsNames :
          JoinValues(a.headers[n]) = JoinValues(b.headers[n])

(***************************************************************************)
(* C1. A request answered from the record of (method, URL, K) returns the  *)
(* status, the body and the headers, apart from the CORS headers, of the   *)
(* upstream response the first request with key K obtained, whatever its   *)
(* own body is. Stated for the replays whose first request did obtain an   *)
(* upstream response. The worker does not keep this: the record holds the  *)
(* body decoded as text and one cookie at most, and it is whatever the     *)
(* last put wrote.                                                         *)
(***************************************************************************)
C1_ReplayIsFirstUpstreamResponse ==
    (out.kind = "response" /\ out.path = "hit" /\ first[out.key].state = "ok")
        => SameApartFromCors(out.response, first[out.key].response)

(***************************************************************************)
(* C2. A GET or HEAD request, with or without an Idempotency-Key header,   *)
(* never waits on a KV get and never has a store task; the only thing it   *)
(* makes observable is its response, which comes from one live upstream    *)
(* call once the credential check is passed (C4 is the case without the    *)
(* credential), with no get counted and no store scheduled.                *)
(***************************************************************************)
C2_GetHeadBypassCache ==
    /\ \A i \in Slots :
          reqs[i].request.method \in {"GET", "HEAD"}
              => reqs[i].pc = "upstream" /\ reqs[i].gets = 0 /\ reqs[i].calls = 1
    /\ out.request.method \in {"GET", "HEAD"}
          => /\ out.kind = "response"
             /\ out.gets = 0
             /\ ~out.store
             /\ out.path = IF KeyConfigured THEN "live" ELSE "nokey"
             /\ out.path = "live" => out.calls = 1

\* a HEAD request that carries a key is answered live while a record is stored
C2_Witness ==
    /\ out.kind = "response"
    /\ out.request.method = "HEAD"
    /\ out.request.idempotencyKey = "key-1"
    /\ out.path = "live"
    /\ out.response.status = 200
    /\ DOMAIN kv # {}

(***************************************************************************)
(* C3. A POST, PUT, PATCH or DELETE request with no Idempotency-Key header *)
(* or an empty one never waits on a KV get and never has a store task;     *)
(* once the credential check is passed its response comes from an upstream *)
(* call of its own and is never a replay.                                  *)
(***************************************************************************)
C3_NoKeyBypassesCache ==
    /\ \A i \in Slots :
          (reqs[i].request.method \in {"POST", "PUT", "PATCH", "DELETE"}
              /\ reqs[i].request.idempotencyKey \in {Undefined, ""})
              => reqs[i].pc = "upstream" /\ reqs[i].gets = 0 /\ reqs[i].calls = 1
    /\ (out.request.method \in {"POST", "PUT", "PATCH", "DELETE"}
          /\ out.request.idempotencyKey \in {Undefined, ""})
          => /\ out.kind = "response"
             /\ out.gets = 0
             /\ ~out.store
             /\ out.path = IF KeyConfigured THEN "live" ELSE "nokey"
             /\ out.path = "live" => out.calls = 1

\* two identical POST requests without a key: the second is answered live
\* while the first still waits for its own upstream call
C3_Witness ==
    /\ out.kind = "response" /\ out.slot = 2 /\ out.path = "live" /\ out.calls = 1
    /\ out.request.method = "POST"
    /\ out.request.idempotencyKey = Undefined
    /\ reqs[1].pc = "upstream" /\ reqs[1].calls = 1
    /\ reqs[1].request = out.request

(***************************************************************************)
(* C4. Without the credential no request ever waits on a KV get, on        *)
(* upstream or on a store task, the namespace is never written, and every  *)
(* response, whatever the method, is the 500 with the JSON error body,     *)
(* given with no get and no upstream call counted.                         *)
(***************************************************************************)
C4_MissingKeyAlways500 ==
    ~KeyConfigured =>
        /\ \A i \in Slots : reqs[i].pc \in {"idle", "done"}
        /\ out.kind \in {"none", "response"}
        /\ DOMAIN written \subseteq {RequestKey(SeedRequest)}
        /\ DOMAIN kv \subseteq DOMAIN SeededStore
        /\ \A k \in DOMAIN kv : kv[k] = SeededStore[k]
        /\ out.kind = "response" =>
              /\ out.path = "nokey"
              /\ out.response.status = 500
              /\ out.response.body
                    = "{\"error\":\"OPENAI_API_KEY environment variable is not set\"}"
              /\ out.response.headers["content-type"] = <<"application/json">>
              /\ out.gets = 0 /\ out.calls = 0 /\ ~out.store

\* a POST whose key has a stored record is answered 500
C4_Witness ==
    /\ ~KeyConfigured
    /\ out.kind = "response" /\ out.response.status = 500
    /\ out.request.method = "POST"
    /\ out.request.idempotencyKey = "key-1"
    /\ KVHas(kv, RequestKey(out.request))

(***************************************************************************)
(* C5. With the credential configured an OPTIONS request never waits on a  *)
(* KV get, on upstream or on a store task; its response is the 204 with an *)
(* empty body and the four CORS headers, with no get and no upstream call  *)
(* counted, whether or not it carries an Idempotency-Key header.           *)
(***************************************************************************)
C5_PreflightAnswered204 ==
    KeyConfigured =>
        /\ \A i \in Slots : reqs[i].request.method # "OPTIONS"
        /\ out.request.method = "OPTIONS" =>
              /\ out.kind = "response"
              /\ out.path = "preflight"
              /\ out.response.status = 204
              /\ out.response.body = ""
              /\ out.response.headers =
                    [n \in CorsNames |->
                        CASE n = "access-control-allow-origin" -> <<"*">>
                          [] n = "access-control-allow-methods" ->
                                <<"GET, POST, PUT, DELETE, OPTIONS, PATCH">>
                          [] n = "access-control-allow-headers" ->
                                <<"Content-Type, Authorization, Idempotency-Key">>
                          [] n = "access-control-max-age" -> <<"86400">>]
              /\ out.gets = 0 /\ out.calls = 0 /\ ~out.store

\* an OPTIONS request that carries a key, answered with a record stored
C5_Witness ==
    /\ KeyConfigured
    /\ out.kind = "response" /\ out.response.status = 204
    /\ out.request.method = "OPTIONS"
    /\ out.request.idempotencyKey = "key-1"
    /\ DOMAIN kv # {}

(***************************************************************************)
(* C6. Every put passes a TTL of 86400 seconds, so a record lives from its *)
(* put to 86400 seconds later; a lookup is answered from a record only     *)
(* before the record's expiration, and a lookup that finds no record, as   *)
(* every lookup made once the TTL has elapsed does, sends the request to   *)
(* upstream.                                                               *)
(***************************************************************************)
C6_RecordsExpireAfterOneDay ==
    /\ out.kind = "put" =>
          /\ out.expirationTtl = 86400
          /\ KVHas(kv, out.key) /\ kv[out.key].expiration = clock + 86400
    /\ \A k \in DOMAIN kv :
          /\ clock < kv[k].expiration /\ kv[k].expiration <= clock + 86400
          /\ written[k] = kv[k].expiration
    /\ \A k \in DOMAIN written : clock >= written[k] => ~KVHas(kv, k)
    /\ (out.kind = "response" /\ out.path = "hit") => clock < written[out.key]
    /\ out.kind = "miss" =>
          /\ reqs[out.slot].pc = "upstream" /\ reqs[out.slot].calls = 1
          /\ out.key \in DOMAIN written => clock >= written[out.key]

\* a request whose key had a record looks it up after the record's expiration,
\* misses and is sent to upstream
C6_Witness ==
    /\ out.kind = "miss"
    /\ out.key \in DOMAIN written
    /\ clock >= written[out.key]
    /\ reqs[out.slot].pc = "upstream"

(***************************************************************************)
(* C7. The response fetch returns after a live forward has the status and  *)
(* the body handleRequest returned, and it is returned while the store     *)
(* task is still pending; when the task later succeeds or fails, the       *)
(* response the caller was given is that same response, and a failure of   *)
(* the task is no response and no exception of fetch.                      *)
(***************************************************************************)
C7_ResponseIndependentOfStore ==
    /\ (out.kind = "response" /\ out.path = "live") =>
          /\ out.response.status = out.forwarded.status
          /\ out.response.body = out.forwarded.body
          /\ out.store =>
                /\ reqs[out.slot].pc = "store"
                /\ reqs[out.slot].sent = out.response
    /\ out.kind \in {"put", "putfailed"} =>
          /\ out.response.status = out.forwarded.status
          /\ out.response.body = out.forwarded.body
    /\ out.kind = "exception" => out.path = "getfailed"

\* the caller was given the upstream's 200 and the store task then failed
C7_Witness ==
    /\ out.kind = "putfailed"
    /\ out.response.status = 200
    /\ out.response.body = Upstream200.body

(***************************************************************************)
(* C8. A KV get that fails is treated as a miss: the request goes on to    *)
(* the upstream call and fetch does not reject. The worker does not keep   *)
(* this: checkIdempotency catches nothing, so fetch rejects.               *)
(***************************************************************************)
C8_ReadFailureIsMiss ==
    out.path = "getfailed" =>
        /\ out.kind # "exception"
        /\ reqs[out.slot].pc = "upstream"

(***************************************************************************)
(* C9. When the upstream fetch fails at transport level, handleRequest     *)
(* returns status 500, content-type application/json and the body          *)
(* {"error": <message>}, the caller is given that status and body, and     *)
(* fetch does not reject.                                                  *)
(***************************************************************************)
C9_TransportFailureIs500 ==
    /\ out.transport = "failed" =>
          /\ out.kind = "response"
          /\ out.forwarded.status = 500
          /\ out.forwarded.headers = ("content-type" :> <<"application/json">>)
          /\ out.forwarded.body = "{\"error\":\"" \o out.error \o "\"}"
          /\ out.response.status = 500
          /\ out.response.body = out.forwarded.body
          /\ out.response.headers["content-type"] = <<"application/json">>
    /\ out.kind = "exception" => out.path = "getfailed"

C9_Witness ==
    /\ out.kind = "response"
    /\ out.transport = "failed"
    /\ out.error = "Network connection lost."
    /\ out.response.body = "{\"error\":\"Network connection lost.\"}"

(***************************************************************************)
(* C10. After a live forward that got an upstream response, the response   *)
(* returned has the upstream's status, status text and body, every         *)
(* upstream header that is not a CORS header with its values, and no       *)
(* header beyond the upstream's and the CORS headers. A replay has the     *)
(* same relation to the record it was read from.                           *)
(***************************************************************************)
C10_DecorationKeepsResponse ==
    /\ (out.kind = "response" /\ out.path = "live" /\ out.transport = "ok") =>
          /\ out.response.status = out.upstream.status
          /\ out.response.statusText = out.upstream.statusText
          /\ out.response.body = out.upstream.body
          /\ DOMAIN out.response.headers = DOMAIN out.upstream.headers \cup CorsNames
          /\ \A n \in DOMAIN out.upstream.headers \ CorsNames :
                out.response.headers[n] = out.upstream.headers[n]
    /\ (out.kind = "response" /\ out.path = "hit") =>
          /\ out.response.status = out.value.status
          /\ out.response.statusText = out.value.statusText
          /\ out.response.body = out.value.body
          /\ DOMAIN out.response.headers = DOMAIN out.value.headers \cup CorsNames
          /\ \A n \in DOMAIN out.value.headers \ CorsNames :
                out.response.headers[n] = <<out.value.headers[n]>>

\* a 429 whose own Access-Control-Allow-Origin is overwritten, the rest kept
C10_Witness ==
    /\ out.kind = "response" /\ out.path = "live"
    /\ out.upstream = Upstream429
    /\ out.response.status = 429
    /\ out.response.headers["access-control-allow-origin"] = <<"*">>
    /\ out.response.headers["content-type"] = <<"application/json">>

(***************************************************************************)
(* handleRequest taken alone: the request it hands to the upstream fetch.  *)
(* A URL is its origin, its pathname and the list of (name, value) pairs   *)
(* its query parses to; percent-encoding is not modelled, and pathnames    *)
(* begin with a single slash.                                              *)
(***************************************************************************)
OPENAI_API_URL == "https://api.openai.com"

\* URLSearchParams.set(name, value): with the name present, the first pair of
\* that name takes the value and every other pair of that name is removed;
\* with the name absent, the pair is appended
SearchParamsSet(params, name, value) ==
    IF \E k \in 1..Len(params) : params[k][1] = name
    THEN LET at == CHOOSE k \in 1..Len(params) :
                      /\ params[k][1] = name
                      /\ \A j \in 1..(k - 1) : params[j][1] # name
         IN  SubSeq(params, 1, at - 1) \o <<<<name, value>>>>
               \o SelectSeq(SubSeq(params, at + 1, Len(params)),
                            LAMBDA p : p[1] # name)
    ELSE Append(params, <<name, value>>)

\* url.searchParams.forEach((value, key) => openaiUrl.searchParams.set(key, value))
RECURSIVE CopySearchParams(_, _)
CopySearchParams(target, source) ==
    IF source = <<>> THEN target
    ELSE CopySearchParams(SearchParamsSet(target, Head(source)[1], Head(source)[2]),
                          Tail(source))

\* the Authorization header left as the client sent it
SetAuthorization_KeepInbound(headers, e) ==
    IF "authorization" \in DOMAIN headers THEN headers
    ELSE HeadersSet(headers, "Authorization", "Bearer " \o e.OPENAI_API_KEY)

\* openaiRequest.headers.set('Authorization', `Bearer ${env.OPENAI_API_KEY}`)
SetAuthorization(headers, e) ==
    HeadersSet(headers, "Authorization", "Bearer " \o e.OPENAI_API_KEY)

\* finalRequest: the method, headers and body of the inbound request, the
\* pathname moved under the upstream origin, the query copied pair by pair
FinalRequest(request, e) ==
    LET url == request.url
        path == url.pathname
        openaiUrl == [origin |-> OPENAI_API_URL, pathname |-> path, search |-> <<>>]
        openaiHeaders == SetAuthorization(request.headers, e)
    IN  [method |-> request.method,
         url |-> [openaiUrl EXCEPT !.search = CopySearchParams(@, url.search)],
         headers |-> openaiHeaders,
         body |-> request.body]

MaxParams == 3
ParamNames == {"model", "n"}
ParamValues == {"1", "2"}
Queries == UNION {[1..k -> ParamNames \X ParamValues] : k \in 0..MaxParams}

ForwardHeaders ==
    { HeadersFromObject([k \in {"Content-Type"} |-> "application/json"]),
      HeadersFromObject("Content-Type" :> "application/json"
                          @@ "Authorization" :> "Bearer user-token"
                          @@ "Idempotency-Key" :> "key-1"),
      HeadersFromObject("Authorization" :> "Basic dXNlcjpwdw=="
                          @@ "x-request-id" :> "r-7") }

ForwardRequests ==
    [method : {"GET", "POST"},
     url : [origin : {"https://proxy.dev"},
            pathname : {"/v1/models", "/v1/chat/completions"},
            search : Queries],
     headers : ForwardHeaders,
     body : {"{\"n\":1}"}]

NoFetch == [method |-> "", url |-> [origin |-> "", pathname |-> "", search |-> <<>>],
            headers |-> NoHeaders, body |-> ""]

InitForward ==
    /\ env \in [OPENAI_API_KEY : {"sk-secret", "sk-other"}]
    /\ clock = 0
    /\ kv = EmptyMap /\ first = EmptyMap /\ written = EmptyMap
    /\ reqs = [i \in Slots |-> IdleSlot]
    /\ out = NoEvent
    /\ \E request \in ForwardRequests :
          call = [fn |-> "handleRequest", pc |-> "received",
                  request |-> request, fetched |-> NoFetch]

\* handleRequest up to its fetch
HandleRequest ==
    /\ call.fn = "handleRequest" /\ call.pc = "received"
    /\ call' = [call EXCEPT !.pc = "fetching",
                            !.fetched = FinalRequest(call.request, env)]
    /\ UNCHANGED <<env, clock, kv, reqs, out, first, written>>

NextForward == HandleRequest

SpecForward == InitForward /\ [][NextForward]_vars

(***************************************************************************)
(* C11. The URL handed to the upstream fetch has the query of the inbound  *)
(* URL: the same (name, value) pairs in the same order, every occurrence   *)
(* of a repeated name included.                                            *)
(***************************************************************************)
C11_QueryCarriedExactly ==
    (call.fn = "handleRequest" /\ call.pc = "fetching") =>
        call.fetched.url.search = call.request.url.search

(***************************************************************************)
(* C12. Every response to a request whose method is not OPTIONS, on every  *)
(* path (replay, live forward, synthesized transport-failure 500,          *)
(* missing-credential 500), carries Access-Control-Allow-Origin: *,        *)
(* Access-Control-Allow-Methods: GET, POST, PUT, DELETE, OPTIONS, PATCH    *)
(* and Access-Control-Allow-Headers: Content-Type, Authorization,          *)
(* Idempotency-Key.                                                        *)
(***************************************************************************)
C12_CorsOnEveryResponse ==
    (out.kind = "response" /\ out.request.method # "OPTIONS") =>
        /\ {"access-control-allow-origin", "access-control-allow-methods",
            "access-control-allow-headers"} \subseteq DOMAIN out.response.headers
        /\ out.response.headers["access-control-allow-origin"] = <<"*">>
        /\ out.response.headers["access-control-allow-methods"] =
              <<"GET, POST, PUT, DELETE, OPTIONS, PATCH">>
        /\ out.response.headers["access-control-allow-headers"] =
              <<"Content-Type, Authorization, Idempotency-Key">>

(***************************************************************************)
(* The cache key taken alone: the keys checkIdempotency and                *)
(* storeIdempotentResponse build for two requests.                         *)
(***************************************************************************)
KeyUrls == {"https://proxy.dev/v1/files?tag=a", "https://proxy.dev/v1/files?tag=a:b"}
KeyRequests ==
    [method : {"POST", "PUT"}, url : KeyUrls, idempotencyKey : {"c", "b:c", "key-1"},
     body : {""}]

InitKey ==
    /\ env \in [OPENAI_API_KEY : {"sk-secret"}]
    /\ clock = 0
    /\ kv = EmptyMap /\ first = EmptyMap /\ written = EmptyMap
    /\ reqs = [i \in Slots |-> IdleSlot]
    /\ out = NoEvent
    /\ \E a \in KeyRequests, b \in KeyRequests :
          call = [fn |-> "cacheKey", pc |-> "given", a |-> a, b |-> b,
                  keyA |-> "", keyB |-> ""]

\* `${request.method}:${request.url}:${idempotencyKey}` for each of the two
BuildKeys ==
    /\ call.fn = "cacheKey" /\ call.pc = "given"
    /\ call' = [call EXCEPT !.pc = "built",
                            !.keyA = RequestKey(call.a),
                            !.keyB = RequestKey(call.b)]
    /\ UNCHANGED <<env, clock, kv, reqs, out, first, written>>

NextKey == BuildKeys

SpecKey == InitKey /\ [][NextKey]_vars

(***************************************************************************)
(* C13. The cache key is injective on (method, full URL, idempotency       *)
(* key): two requests get the same key exactly when they agree on all      *)
(* three, also when the URL or the idempotency key contains ':'.           *)
(***************************************************************************)
C13_CacheKeyInjective ==
    (call.fn = "cacheKey" /\ call.pc = "built") =>
        ((call.keyA = call.keyB) <=>
            /\ call.a.method = call.b.method
            /\ call.a.url = call.b.url
            /\ call.a.idempotencyKey = call.b.idempotencyKey)

(***************************************************************************)
(* C14. A KV put is never applied to a key whose record is present at the  *)
(* moment of the put, concurrent requests included; as a put is the only   *)
(* step that writes a record, this is what keeps a record's content and    *)
(* expiry as they were between its creation and its expiry.                *)
(***************************************************************************)
C14_PutNeverOverwrites ==
    (out.kind = "put") => ~out.overwrote

(***************************************************************************)
(* C15. The request handed to the upstream fetch has exactly one           *)
(* Authorization value, 'Bearer ' followed by the configured credential,   *)
(* whatever Authorization the inbound request carried (none, a bearer      *)
(* token, basic credentials); every other inbound header is there with     *)
(* its inbound values, and no further header is.                           *)
(***************************************************************************)
C15_AuthorizationOverwritten ==
    (call.fn = "handleRequest" /\ call.pc = "fetching") =>
        /\ DOMAIN call.fetched.headers =
              DOMAIN call.request.headers \cup {"authorization"}
        /\ call.fetched.headers["authorization"] =
              <<"Bearer " \o env.OPENAI_API_KEY>>
        /\ \A n \in DOMAIN call.request.headers \ {"authorization"} :
              call.fetched.headers[n] = call.request.headers[n]

\* an inbound bearer token replaced, the idempotency key passed through
C15_Witness ==
    /\ call.fn = "handleRequest" /\ call.pc = "fetching"
    /\ "authorization" \in DOMAIN call.request.headers
    /\ call.request.headers["authorization"] = <<"Bearer user-token">>
    /\ call.fetched.headers["authorization"] = <<"Bearer sk-secret">>
    /\ call.fetched.headers["idempotency-key"] = <<"key-1">>

(***************************************************************************)
(* C16. A request answered from the cache has made no upstream call and    *)
(* starts no store: it is finished when its replay is returned. A store    *)
(* task exists only for a request that looked up the cache, missed, was    *)
(* forwarded live once, and whose upstream call has returned or failed;    *)
(* every put and every failed put belongs to such a request.               *)
(***************************************************************************)
C16_ReplayStoresNothing ==
    /\ (out.kind = "response" /\ out.path = "hit") =>
          /\ out.calls = 0
          /\ ~out.store
          /\ reqs[out.slot].pc = "done"
    /\ (out.kind = "response" /\ out.store) =>
          /\ out.path = "live"
          /\ out.gets = 1 /\ out.calls = 1
          /\ out.transport \in {"ok", "failed"}
    /\ \A i \in Slots : reqs[i].pc = "store" =>
          /\ reqs[i].gets = 1 /\ reqs[i].calls = 1
          /\ reqs[i].forwarded # NoResponse
    /\ (out.kind \in {"put", "putfailed"}) =>
          /\ out.gets = 1 /\ out.calls = 1
          /\ out.forwarded # NoResponse

\* a replay of a stored 429, returned with no upstream call
C16_Witness ==
    /\ out.kind = "response" /\ out.path = "hit"
    /\ out.calls = 0 /\ out.gets = 1
    /\ out.value.status = 429
    /\ reqs[out.slot].pc = "done"

(***************************************************************************)
(* C17. Nothing marks a cache key as in flight: whenever a request has     *)
(* missed and is waiting for the upstream, and another request of the      *)
(* same method, URL and idempotency key is waiting for its KV get while    *)
(* no record is present, that get can resolve as a miss, after which both  *)
(* requests are calling the upstream. The witness is such a state: two     *)
(* requests of one cache key, both missed, both with an upstream call.     *)
(***************************************************************************)
C17_SecondRequestAlsoMisses ==
    \A i \in Slots, j \in Slots :
        ( /\ i # j
          /\ reqs[i].pc = "kvget" /\ reqs[j].pc = "upstream"
          /\ RequestKey(reqs[i].request) = RequestKey(reqs[j].request)
          /\ ~KVHas(kv, RequestKey(reqs[i].request)) )
        => ENABLED ( /\ KvGetReturn(i)
                     /\ reqs'[i].pc = "upstream"
                     /\ reqs'[j].pc = "upstream" )

C17_Witness ==
    /\ \A i \in Slots :
          /\ reqs[i].pc = "upstream"
          /\ reqs[i].gets = 1 /\ reqs[i].calls = 1
          /\ reqs[i].request.method = "POST"
          /\ reqs[i].request.idempotencyKey = "key-1"
          /\ reqs[i].request.url = reqs[1].request.url
    /\ ~KVHas(kv, RequestKey(reqs[1].request))

(***************************************************************************)
(* C18. A record is created only by a successful forward: the response a   *)
(* put stores, and the response a pending store task holds, is a response  *)
(* received from the upstream, never the 500 synthesized for a transport   *)
(* failure; so the record a replay is read from is never that 500, and a   *)
(* retry after a transport failure is forwarded live again.                *)
(***************************************************************************)
C18_OnlyUpstreamResponsesStored ==
    LET Synthesized == {ForwardFailure(message) : message \in TransportErrors}
        Received == {ForwardSuccess(upstream) : upstream \in UpstreamResponses}
    IN  /\ \A i \in Slots : reqs[i].pc = "store" =>
              /\ reqs[i].forwarded \in Received
              /\ reqs[i].forwarded \notin Synthesized
        /\ (out.kind = "put") =>
              /\ out.forwarded \in Received
              /\ out.value \notin {ResponseData(r) : r \in Synthesized}
        /\ (out.kind = "response" /\ out.path = "hit") =>
              out.value \notin {ResponseData(r) : r \in Synthesized}

(***************************************************************************)
(* C19. Nothing is retried: a request makes at most one KV get and at most *)
(* one upstream call, and each of the three operations ends the request's  *)
(* use of it whatever its outcome: a failed get ends the request with no   *)
(* upstream call, a failed upstream call is answered with that one call    *)
(* made, and a put, failed or not, ends the store task.                    *)
(***************************************************************************)
C19_NothingRetried ==
    /\ \A i \in Slots : reqs[i].gets <= 1 /\ reqs[i].calls <= 1
    /\ out.gets <= 1 /\ out.calls <= 1
    /\ (out.kind = "exception") =>
          /\ out.gets = 1 /\ out.calls = 0
          /\ reqs[out.slot].pc = "done"
    /\ (out.kind = "response" /\ out.path = "live") =>
          /\ out.calls = 1
          /\ reqs[out.slot].pc \in {"store", "done"}
    /\ (out.kind \in {"put", "putfailed"}) => reqs[out.slot].pc = "done"

\* a keyed POST whose one upstream call failed, answered without another call
C19_Witness ==
    /\ out.kind = "response" /\ out.path = "live" /\ out.transport = "failed"
    /\ out.request.method = "POST" /\ out.request.idempotencyKey = "key-1"
    /\ out.gets = 1 /\ out.calls = 1
    /\ out.response.status = 500

====
